---- MODULE Spec2Model ----
(***************************************************************************)
(* A model of librelay-node's messaging core:                              *)
(*   - OutgoingMessage (src/unnamed/part_000, lines 169-427): one call of  *)
(*     sendToAddr(addr) against a session store, a session cipher and a    *)
(*     message service that may answer anything;                           *)
(*   - the padding of doSendMessage and MessageReceiver.unpad;             *)
(*   - MessageReceiver (src/src/message_receiver.js): the request queue,   *)
(*     handleRequest and handleEnvelope; connect, close and onSocketClose; *)
(*     drain;                                                              *)
(*   - OutgoingMessage.on and emit.                                        *)
(* Each part has its own specification; the variables of the other parts   *)
(* stay at their initial values.                                           *)
(***************************************************************************)
EXTENDS Integers, Sequences, FiniteSets, TLC

(***************************************************************************)
(* Bounds of the model.                                                    *)
(***************************************************************************)
\* device ids are 1..MaxDevice
MaxDevice == 2
\* the suspended doSendMessage frames are counted up to MaxDepth; a deeper
\* recursion is recorded as MaxDepth
MaxDepth == 2

\* a message is up to MaxFill copies of one byte followed by up to MaxTail bytes
MaxFill == 160
MaxTail == 2
\* a buffer handed to unpad that no sender padded has up to MaxBuf bytes
MaxBuf == 4
\* the requests that arrive on the socket
MaxRequests == 2
\* the connect() calls of the application
MaxCalls == 3
\* the close events the transport raises by itself
MaxCloses == 1
\* the callbacks registered for an event, and the emit calls
MaxListeners == 3
MaxEmits == 2
\* the envelopes of one answer of the messages API, and the answers
MaxBatch == 2
MaxBatches == 2

\* the block of the padding (getPaddedMessageLength)
BlockSize == 160
\* the terminator byte of the padding
Terminator == 128

Devices == 1..MaxDevice
\* the identity keys the service may present
Keys == {"k0", "k1"}

SessStates == {"none", "open", "closed"}

\* the journal entries and the keychange events are counted 0, 1, "2 or more"
Sat(n) == IF n < 2 THEN n + 1 ELSE 2

RECURSIVE SortedSeq(_)
\* the ascending list of a set of device ids (storage.getDeviceIds is sorted)
SortedSeq(S) ==
    IF S = {} THEN <<>>
    ELSE LET m == CHOOSE x \in S : \A y \in S : x <= y
         IN <<m>> \o SortedSeq(S \ {m})

Range(s) == {s[i] : i \in 1..Len(s)}

VARIABLES
    \* ---- session store (storage) ----
    sess,        \* session record of each device of addr: none / open / closed
    isOwn,       \* addr === storage.getState('addr')
    trusted,     \* the identity key the store trusts for addr
    \* ---- OutgoingMessage.sendToAddr ----
    pc,          \* position of the call
    outcome,     \* "running", "returned" or "thrown"
    depth,       \* doSendMessage frames suspended at line 354
    exc,         \* an exception is in flight
    fr,          \* locals of the running reloadDevicesAndSend / doSendMessage
    kq,          \* locals of the running getKeysForAddr
    jb,          \* the jobs of handleResult for an all-devices answer
    \* ---- journals and observations ----
    sent,        \* number of entries of this.sent: 0, 1, "2 or more"
    errors,      \* this.errors: the reasons of its entries
    transmits,   \* calls of server.sendMessages: 0, 1, 2, "3 or more"
    keychanges,  \* 'keychange' events emitted: 0, 1, "2 or more"
    scanFailed,  \* the stale-device scan threw
    failed       \* an exception was raised that the call did not absorb
    ,
    \* ---- padding ----
    msg,         \* this.messageBuffer
    padded,      \* paddedBuf of doSendMessage, or the plainBuf a cipher returned
    unpadded,    \* what unpad made of padded
    padPc        \* "idle", "padded", "received", "roundtrip" or "unpadded"
    ,
    \* ---- MessageReceiver ----
    requests,    \* the requests that arrived, in arrival order, and their handling
    rq,          \* the jobs waiting in the queue of queueAsync
    events,      \* the events dispatched, in order, each with its request
    decrypted,   \* the requests for which a session cipher was asked to decrypt
    touched,     \* the requests whose handling closed a session or asked for a reset
    env          \* the envelope handleEnvelope works on and the locals of the call
    ,
    \* ---- MessageReceiver: the connection ----
    closing,     \* this._closing
    connecting,  \* this._connecting: 0, or the reconnect loop whose promise it holds
    loops,       \* the reconnect loops started, each with its position
    waiters,     \* the connect() calls awaiting a pending loop, in the order they await
    micro,       \* the continuations ready to run, first in first out
    sock,        \* the transport: "down", "up", "closing" (close() called), "closed"
    oscs,        \* the onSocketClose calls awaiting their registration probe
    accepting,   \* the transport accepts every attempt from now on
    calls,       \* the connect() calls the application made
    closes,      \* the socket-close events the transport raised by itself
    lastProbe,   \* the registration probe that came back last, and its error event
    seen,        \* what has happened: a loop "retried" or "exited", a socket close was
                 \* "ignored", a reconnect "skipped", a connect() call "threw"
    late         \* what was started though close() had been called
    ,
    \* ---- OutgoingMessage.on / emit ----
    listeners,   \* this._listeners[event]: what each callback does, in registration order
    emitAt,      \* the callback emit is awaiting (0: none)
    emitLog,     \* the calls and settlements of the callbacks, in order
    emitResult,  \* "none", "running", "resolved" or "rejected"
    emits        \* the emit calls made
    ,
    \* ---- MessageReceiver.drain ----
    wsr,         \* this.wsr is set: the receiver was built with the stream
    dpc,         \* position of drain: "idle", "fetch", "handle", "deleting",
                 \* "returned" or "thrown"
    data,        \* the answer of the messages API: messages (their sources) and more
    at,          \* the envelope of data.messages handleEnvelope is working on
    base,        \* the envelopes fetched before this answer
    deleting,    \* the DELETE requests of this answer: "pending", "done" or "failed"
    dlog         \* the requests and the handleEnvelope calls of drain, in order

sendVars == <<sess, isOwn, trusted, pc, outcome, depth, exc, fr, kq, jb,
              sent, errors, transmits, keychanges, scanFailed, failed>>
padVars == <<msg, padded, unpadded, padPc>>
recvVars == <<requests, rq, events, decrypted, touched, env>>
connVars == <<closing, connecting, loops, waiters, micro, sock, oscs, accepting, calls,
              closes, lastProbe, seen, late>>
emitVars == <<listeners, emitAt, emitLog, emitResult, emits>>
drainVars == <<wsr, dpc, data, at, base, deleting, dlog>>
vars == <<sendVars, padVars, recvVars, connVars, emitVars, drainVars>>

NoDrift == [code |-> 0, extraDevices |-> {}, missingDevices |-> {}, staleDevices |-> {}]

\* recurse: the recurse argument; deviceIds: the devices of doSendMessage (the
\* keys of ciphers); drift: the 409/410 answer being reconciled; prevDevs: the
\* deviceIds of the doSendMessage suspended last; dropped: the devices whose
\* session the key refresh of the reconciliation removed on a 404
NoFrame == [recurse |-> TRUE, deviceIds |-> {}, drift |-> NoDrift, prevDevs |-> {},
            dropped |-> {}]

\* ctx: the caller, "initial" (sendToAddr) or "reconcile" (doSendMessage);
\* upd: updateDevices; todo: the devices left in the loop of the first-level
\* call; reentrant: a reentrant call is running; todo1: the devices left in its loop
NoKeys == [ctx |-> "initial", upd |-> <<>>, todo |-> <<>>, reentrant |-> FALSE,
           todo1 |-> <<>>]

\* run: the devices whose job is running; key: the identity key of the answer
NoJobs == [run |-> {}, key |-> "k0"]

PadInit ==
    /\ msg = <<>>
    /\ padded = <<>>
    /\ unpadded = [ok |-> "none", buf |-> <<>>]
    /\ padPc = "idle"

\* the envelope handleEnvelope works on and what its handling has seen: the
\* request it came with (req), envelope.sourceDevice, the calls of the handler
\* (runs), the answers of the session cipher (answers), what the plaintext
\* decoded to (content), the exception the catch block received (caught),
\* whether a listener accepted the key change (accepted), envelope.keyChange,
\* and what the catch block did about the exception, in order (steps): the
\* calls it made and the dispatch of the error event ("error")
NoEnvelope ==
    [req |-> 0, sourceDevice |-> 0, runs |-> 0, answers |-> <<>>, content |-> "none",
     caught |-> "none", accepted |-> "none", keyChange |-> FALSE, steps |-> <<>>]

\* MessageReceiver.constructor (lines 84-105): nothing has arrived
RecvInit ==
    /\ requests = <<>>
    /\ rq = <<>>
    /\ events = <<>>
    /\ decrypted = {}
    /\ touched = {}
    /\ env = NoEnvelope

\* OutgoingMessage.constructor (lines 171-179), before sendToAddr is called
SendStart ==
    /\ pc = "scan"
    /\ outcome = "running"
    /\ depth = 0
    /\ exc = FALSE
    /\ fr = NoFrame
    /\ kq = NoKeys
    /\ jb = NoJobs
    /\ sent = 0
    /\ errors = <<>>
    /\ transmits = 0
    /\ keychanges = 0
    /\ scanFailed = FALSE
    /\ failed = FALSE

\* MessageReceiver.constructor (lines 84-105): _closing and _connecting are
\* unset, the transport has not been connected
ConnInit ==
    /\ closing = FALSE
    /\ connecting = 0
    /\ loops = <<>>
    /\ waiters = <<>>
    /\ micro = <<>>
    /\ sock = "down"
    /\ oscs = 0
    /\ accepting = FALSE
    /\ calls = 0
    /\ closes = 0
    /\ lastProbe = "none"
    /\ seen = {}
    /\ late = {}

\* OutgoingMessage.constructor (line 178): this._listeners = {}
EmitInit ==
    /\ listeners = <<>>
    /\ emitAt = 0
    /\ emitLog = <<>>
    /\ emitResult = "none"
    /\ emits = 0

NoData == [messages |-> <<>>, more |-> FALSE]

\* MessageReceiver.constructor (lines 94-104) with the stream, before drain
\* is called
DrainInit ==
    /\ wsr = TRUE
    /\ dpc = "idle"
    /\ data = NoData
    /\ at = 0
    /\ base = 0
    /\ deleting = <<>>
    /\ dlog = <<>>

\* a store in any state; the key it trusts for addr is called k0
Init ==
    /\ sess \in [Devices -> SessStates]
    /\ isOwn \in BOOLEAN
    /\ trusted = "k0"
    /\ SendStart
    /\ PadInit
    /\ RecvInit
    /\ ConnInit
    /\ EmitInit
    /\ DrainInit

\* the store holds no session of addr; only the padding, the connection of
\* the receiver or emit runs
InitQuiet ==
    /\ sess = [d \in Devices |-> "none"]
    /\ isOwn = FALSE
    /\ trusted = "k0"
    /\ SendStart
    /\ PadInit
    /\ RecvInit
    /\ ConnInit
    /\ EmitInit
    /\ DrainInit

\* the same with the transport of the receiver connected
InitConnected ==
    /\ sess = [d \in Devices |-> "none"]
    /\ isOwn = FALSE
    /\ trusted = "k0"
    /\ SendStart
    /\ PadInit
    /\ RecvInit
    /\ closing = FALSE
    /\ connecting = 0
    /\ loops = <<>>
    /\ waiters = <<>>
    /\ micro = <<>>
    /\ sock = "up"
    /\ oscs = 0
    /\ accepting = FALSE
    /\ calls = 0
    /\ closes = 0
    /\ lastProbe = "none"
    /\ seen = {}
    /\ late = {}
    /\ EmitInit
    /\ DrainInit

(***************************************************************************)
(* The session store and the journals.                                     *)
(***************************************************************************)
\* storage.getDeviceIds(addr): the devices with a session record
GetDeviceIds == {d \in Devices : sess[d] # "none"}

\* sessionCipher.hasOpenSession()
HasOpenSession(d) == sess[d] = "open"

\* this.errors after emitError(addr, reason, error): the entry is pushed before
\* emitError first awaits, so also where the call is not awaited
EmitError(reason) == Append(errors, reason)

\* this.sent's length after emitSent(addr)
EmitSent == Sat(sent)

\* the store with the sessions of the devices S set to st
SessWith(S, st) == [d \in Devices |-> IF d \in S THEN st ELSE sess[d]]

(***************************************************************************)
(* sendToAddr, first try block: the stale-device scan.                     *)
(***************************************************************************)
\* getStaleDeviceIdsForAddr's result on the store as it is
StaleDeviceIds ==
    LET ids == IF GetDeviceIds = {} /\ ~isOwn THEN {1} ELSE GetDeviceIds
    IN SortedSeq({d \in ids : ~HasOpenSession(d)})

\* sendToAddr lines 408-413, then the entry of getKeysForAddr (line 274)
GetStaleDeviceIdsForAddr ==
    /\ pc = "scan"
    /\ \/ /\ kq' = [NoKeys EXCEPT !.upd = StaleDeviceIds, !.todo = StaleDeviceIds]
          /\ pc' = "keysLoop"
          /\ UNCHANGED <<errors, scanFailed, failed>>
       \/ \* the store or the cipher throws: journaled, updateDevices stays undefined
          /\ kq' = NoKeys
          /\ pc' = "keysAll"
          /\ errors' = EmitError("Failed to get device ids for address")
          /\ scanFailed' = TRUE
          /\ failed' = TRUE
    /\ UNCHANGED <<sess, isOwn, trusted, outcome, depth, exc, fr, jb, sent, transmits,
                   keychanges>>
    /\ UNCHANGED <<padVars, recvVars, connVars, emitVars, drainVars>>

(***************************************************************************)
(* getKeysForAddr(addr, updateDevices, reentrant), updateDevices a list:   *)
(* one request per device, one after the other.                            *)
(***************************************************************************)
\* an exception leaves the first-level getKeysForAddr: into sendToAddr's second
\* catch (lines 416-418), or out of doSendMessage (line 352 is in no try
\* block) and of the reloadDevicesAndSend that called it
KThrow ==
    /\ kq' = NoKeys
    /\ failed' = TRUE
    /\ IF kq.ctx = "initial"
       THEN /\ errors' = EmitError("Failed to retrieve new device keys for address")
            /\ pc' = "reload"
            /\ UNCHANGED <<exc, fr>>
       ELSE /\ exc' = TRUE
            /\ pc' = "unwind"
            /\ fr' = NoFrame
            /\ errors' = errors

\* the catch of the first-level loop (lines 281-287), for an exception of the
\* request or of handleResult (the reentrant call's included)
K0Catch(kind) ==
    LET device == Head(kq.todo)
    IN IF kind = "ProtocolError404" /\ device # 1
       THEN \/ \* removeDeviceIdsForAddr(addr, [device])
               /\ sess' = SessWith({device}, "none")
               /\ fr' = [fr EXCEPT !.dropped = @ \cup {device}]
               /\ kq' = [kq EXCEPT !.todo = Tail(@), !.reentrant = FALSE, !.todo1 = <<>>]
               /\ UNCHANGED <<pc, exc, errors, failed>>
            \/ \* storage.removeSession throws
               /\ KThrow
               /\ UNCHANGED sess
       ELSE /\ KThrow
            /\ UNCHANGED sess

\* lines 277-288 with handleResult (244-272): the request for one device and
\* the session build of the device it returns, reentrant false
KeysLoopDevice ==
    /\ pc = "keysLoop"
    /\ ~kq.reentrant
    /\ kq.todo # <<>>
    /\ LET device == Head(kq.todo)
       IN \/ \* answered with the trusted key; builder.processPreKey succeeds
             /\ sess' = SessWith({device}, "open")
             /\ fr' = [fr EXCEPT !.dropped = @ \ {device}]
             /\ kq' = [kq EXCEPT !.todo = Tail(@)]
             /\ UNCHANGED <<trusted, keychanges, pc, exc, errors, failed>>
          \/ \* answered; "Identity key changed": keychange is emitted, the
             \* listener accepts the key or not, and the reentrant call is entered
             /\ \E k \in Keys \ {trusted} : \E accept \in BOOLEAN :
                    trusted' = IF accept THEN k ELSE trusted
             /\ keychanges' = Sat(keychanges)
             /\ kq' = [kq EXCEPT !.reentrant = TRUE, !.todo1 = kq.upd]
             /\ UNCHANGED <<sess, fr, pc, exc, errors, failed>>
          \/ \* the request answers 404
             /\ K0Catch("ProtocolError404")
             /\ UNCHANGED <<trusted, keychanges>>
          \/ \* the request fails otherwise, or the builder throws
             /\ K0Catch("Error")
             /\ UNCHANGED <<trusted, keychanges>>
    /\ UNCHANGED <<isOwn, outcome, depth, jb, sent, transmits, scanFailed>>
    /\ UNCHANGED <<padVars, recvVars, connVars, emitVars, drainVars>>

\* the same loop in the reentrant call (line 258): an "Identity key changed"
\* raises OutgoingIdentityKeyError (lines 260-262)
KeysReentrantDevice ==
    /\ pc = "keysLoop"
    /\ kq.reentrant
    /\ kq.todo1 # <<>>
    /\ LET device == Head(kq.todo1)
       IN \/ \* answered with the trusted key; builder.processPreKey succeeds
             /\ sess' = SessWith({device}, "open")
             /\ fr' = [fr EXCEPT !.dropped = @ \ {device}]
             /\ kq' = [kq EXCEPT !.todo1 = Tail(@)]
             /\ UNCHANGED <<pc, exc, errors, failed>>
          \/ \* answered with another key
             /\ K0Catch("OutgoingIdentityKeyError")
          \/ \* 404 for a device other than 1: the reentrant loop's own catch
             /\ device # 1
             /\ \/ /\ sess' = SessWith({device}, "none")
                   /\ fr' = [fr EXCEPT !.dropped = @ \cup {device}]
                   /\ kq' = [kq EXCEPT !.todo1 = Tail(@)]
                   /\ UNCHANGED <<pc, exc, errors, failed>>
                \/ K0Catch("Error")
          \/ \* 404 for device 1: rethrown, into the first-level loop's catch
             /\ device = 1
             /\ K0Catch("ProtocolError404")
          \/ \* the request fails otherwise, or the builder throws
             K0Catch("Error")
    /\ UNCHANGED <<isOwn, trusted, outcome, depth, jb, sent, transmits, keychanges,
                   scanFailed>>
    /\ UNCHANGED <<padVars, recvVars, connVars, emitVars, drainVars>>

\* the reentrant call returns (line 258 completes); the loop goes on
KeysReentrantReturn ==
    /\ pc = "keysLoop"
    /\ kq.reentrant
    /\ kq.todo1 = <<>>
    /\ kq' = [kq EXCEPT !.reentrant = FALSE, !.todo = Tail(@)]
    /\ UNCHANGED <<sess, isOwn, trusted, pc, outcome, depth, exc, fr, jb, sent, errors,
                   transmits, keychanges, scanFailed, failed>>
    /\ UNCHANGED <<padVars, recvVars, connVars, emitVars, drainVars>>

\* getKeysForAddr returns: sendToAddr goes on to reloadDevicesAndSend(addr, true)
\* (line 420), doSendMessage to reloadDevicesAndSend(addr, e.code === 409)
\* (line 354), its frame suspended there
KeysReturn ==
    /\ pc \in {"keysLoop", "jobs"}
    /\ ~kq.reentrant
    /\ kq.todo = <<>>
    /\ pc = "jobs" => jb.run = {}
    /\ pc' = "reload"
    /\ kq' = NoKeys
    /\ IF kq.ctx = "initial"
       THEN UNCHANGED <<fr, depth>>
       ELSE /\ fr' = [fr EXCEPT !.recurse = (fr.drift.code = 409)]
            /\ depth' = IF depth < MaxDepth THEN depth + 1 ELSE depth
    /\ UNCHANGED <<sess, isOwn, trusted, outcome, exc, jb, sent, errors, transmits,
                   keychanges, scanFailed, failed>>
    /\ UNCHANGED <<padVars, recvVars, connVars, emitVars, drainVars>>

(***************************************************************************)
(* getKeysForAddr(addr, undefined): one request for all the devices        *)
(* (line 275); handleResult runs one job per device of the answer and      *)
(* awaits Promise.all of them (lines 245-271).  Promise.all rejects with   *)
(* the first job that rejects; the other jobs keep running.                *)
(***************************************************************************)
\* line 275: the request, and the start of the jobs
KeysAll ==
    /\ pc = "keysAll"
    /\ \/ \* the request fails
          /\ KThrow
          /\ UNCHANGED jb
       \/ \* answered with the devices D under the identity key k
          /\ \E D \in SUBSET Devices : \E k \in Keys :
                jb' = IF D = {} THEN NoJobs ELSE [run |-> D, key |-> k]
          /\ pc' = "jobs"
          /\ UNCHANGED <<exc, fr, kq, errors, failed>>
    /\ UNCHANGED <<sess, isOwn, trusted, outcome, depth, sent, transmits, keychanges,
                   scanFailed>>
    /\ UNCHANGED <<padVars, recvVars, connVars, emitVars, drainVars>>

\* the jobs without the job of d
JobsWithout(d) == IF jb.run = {d} THEN NoJobs ELSE [jb EXCEPT !.run = @ \ {d}]

\* the job of d rejects: handleResult rejects if it is still awaited (the
\* catch of lines 416-418), otherwise nothing observes it
JobRejected(d) ==
    /\ jb' = JobsWithout(d)
    /\ IF pc = "jobs"
       THEN /\ errors' = EmitError("Failed to retrieve new device keys for address")
            /\ pc' = "reload"
            /\ failed' = TRUE
       ELSE UNCHANGED <<errors, pc, failed>>

\* lines 252-266: builder.processPreKey throws something else than "Identity
\* key changed"
JobReject(d) ==
    /\ d \in jb.run
    /\ JobRejected(d)
    /\ UNCHANGED <<sess, isOwn, trusted, outcome, depth, exc, fr, kq, sent, transmits,
                   keychanges, scanFailed>>
    /\ UNCHANGED <<padVars, recvVars, connVars, emitVars, drainVars>>

\* line 253: builder.processPreKey succeeds under the trusted key
JobBuild(d) ==
    /\ d \in jb.run
    /\ jb.key = trusted
    /\ sess' = SessWith({d}, "open")
    /\ jb' = JobsWithout(d)
    /\ UNCHANGED <<isOwn, trusted, pc, outcome, depth, exc, fr, kq, sent, errors,
                   transmits, keychanges, scanFailed, failed>>
    /\ UNCHANGED <<padVars, recvVars, connVars, emitVars, drainVars>>

\* lines 255-258: "Identity key changed": keychange is emitted, the listener
\* accepts the key or not, and the reentrant getKeysForAddr(addr, undefined,
\* true) opens the sessions B before it returns or throws
JobKeychange(d) ==
    /\ d \in jb.run
    /\ jb.key # trusted
    /\ keychanges' = Sat(keychanges)
    /\ \E accept \in BOOLEAN : trusted' = IF accept THEN jb.key ELSE trusted
    /\ \E B \in SUBSET {x \in Devices : ~HasOpenSession(x)} : sess' = SessWith(B, "open")
    /\ \/ \* the job resolves, or it rejects and nothing observes it
          /\ jb' = JobsWithout(d)
          /\ UNCHANGED <<pc, errors, failed>>
       \/ \* the job rejects while handleResult is awaited
          /\ pc = "jobs"
          /\ JobRejected(d)
    /\ UNCHANGED <<isOwn, outcome, depth, exc, fr, kq, sent, transmits, scanFailed>>
    /\ UNCHANGED <<padVars, recvVars, connVars, emitVars, drainVars>>

(***************************************************************************)
(* reloadDevicesAndSend and doSendMessage.                                 *)
(***************************************************************************)
\* lines 228-240
ReloadDevicesAndSend ==
    /\ pc = "reload"
    /\ \/ \* storage.getDeviceIds or storage.getState throws
          /\ exc' = TRUE
          /\ failed' = TRUE
          /\ pc' = "unwind"
          /\ fr' = NoFrame
          /\ UNCHANGED sent
       \/ \* no device, and addr is not our own: return
          /\ GetDeviceIds = {}
          /\ ~isOwn
          /\ pc' = "unwind"
          /\ fr' = NoFrame
          /\ UNCHANGED <<exc, failed, sent>>
       \/ \* no device, and addr is our own: emitSent, then doSendMessage
          /\ GetDeviceIds = {}
          /\ isOwn
          /\ sent' = EmitSent
          /\ pc' = "encrypt"
          /\ fr' = [fr EXCEPT !.deviceIds = {}]
          /\ UNCHANGED <<exc, failed>>
       \/ /\ GetDeviceIds # {}
          /\ pc' = "encrypt"
          /\ fr' = [fr EXCEPT !.deviceIds = GetDeviceIds]
          /\ UNCHANGED <<exc, failed, sent>>
    /\ UNCHANGED <<sess, isOwn, trusted, outcome, depth, kq, jb, errors, transmits,
                   keychanges, scanFailed>>
    /\ UNCHANGED <<padVars, recvVars, connVars, emitVars, drainVars>>

\* doSendMessage lines 326-336: the encrypt fan-out
DoSendMessageEncrypt ==
    /\ pc = "encrypt"
    /\ \/ \* every cipher encrypts: each device has an open session
          /\ \A d \in fr.deviceIds : HasOpenSession(d)
          /\ pc' = "transmit"
          /\ UNCHANGED <<fr, errors, failed>>
       \/ \* a cipher throws: no open session, or any other failure
          /\ fr.deviceIds # {}
          /\ errors' = EmitError("Failed to create message")
          /\ failed' = TRUE
          /\ pc' = "unwind"
          /\ fr' = NoFrame
    /\ UNCHANGED <<sess, isOwn, trusted, outcome, depth, exc, kq, jb, sent, transmits,
                   keychanges, scanFailed>>
    /\ UNCHANGED <<padVars, recvVars, connVars, emitVars, drainVars>>

\* the 409 and 410 answers the service can give to a transmit for devs
Answers(devs) ==
    {[code |-> 409, extraDevices |-> e, missingDevices |-> m, staleDevices |-> {}] :
        <<e, m>> \in {x \in (SUBSET devs) \X (SUBSET (Devices \ devs)) :
                        x[1] \cup x[2] # {}}}
    \cup
    {[code |-> 410, extraDevices |-> {}, missingDevices |-> {}, staleDevices |-> st] :
        st \in (SUBSET devs) \ {{}}}

\* doSendMessage lines 337-344 and 359-364, with transmitMessage (292-307)
TransmitMessage ==
    /\ pc = "transmit"
    /\ transmits' = IF transmits < 3 THEN transmits + 1 ELSE 3
    /\ \/ \* 200: line 364
          /\ sent' = EmitSent
          /\ pc' = "unwind"
          /\ fr' = NoFrame
          /\ UNCHANGED <<errors, failed>>
       \/ \* any failure other than 409 and 410
          /\ errors' = EmitError("Failed to send message")
          /\ failed' = TRUE
          /\ pc' = "unwind"
          /\ fr' = NoFrame
          /\ UNCHANGED sent
       \/ \* 409 or 410
          /\ \E a \in Answers(fr.deviceIds) :
                IF fr.recurse
                THEN /\ fr' = [fr EXCEPT !.drift = a, !.prevDevs = {}, !.dropped = {}]
                     /\ pc' = "reconcile"
                     /\ UNCHANGED <<errors, failed>>
                ELSE /\ errors' = EmitError("Hit retry limit attempting to reload device list")
                     /\ failed' = TRUE
                     /\ pc' = "unwind"
                     /\ fr' = NoFrame
          /\ UNCHANGED sent
    /\ UNCHANGED <<sess, isOwn, trusted, outcome, depth, exc, kq, jb, keychanges,
                   scanFailed>>
    /\ UNCHANGED <<padVars, recvVars, connVars, emitVars, drainVars>>

\* Reconcile without line 346: the sessions of extraDevices stay in the store
ReconcileKeepsExtra ==
    /\ pc = "reconcile"
    /\ \/ \* storage.removeSession or closeOpenSessionForDevice throws
          /\ exc' = TRUE
          /\ failed' = TRUE
          /\ pc' = "unwind"
          /\ fr' = NoFrame
          /\ UNCHANGED <<sess, kq>>
       \/ /\ sess' = IF fr.drift.code = 409
                     THEN sess
                     ELSE SessWith({d \in fr.drift.staleDevices : HasOpenSession(d)}, "closed")
          /\ LET resetDevices == IF fr.drift.code = 410 THEN fr.drift.staleDevices
                                 ELSE fr.drift.missingDevices
             IN kq' = [NoKeys EXCEPT !.ctx = "reconcile", !.upd = SortedSeq(resetDevices),
                                     !.todo = SortedSeq(resetDevices)]
          /\ fr' = [fr EXCEPT !.prevDevs = fr.deviceIds, !.dropped = {}]
          /\ pc' = "keysLoop"
          /\ UNCHANGED <<exc, failed>>
    /\ UNCHANGED <<isOwn, trusted, outcome, depth, jb, sent, errors, transmits,
                   keychanges, scanFailed>>
    /\ UNCHANGED <<padVars, recvVars, connVars, emitVars, drainVars>>

\* doSendMessage lines 345-352: the sessions of extraDevices are removed (409)
\* or those of staleDevices closed (410), and getKeysForAddr(addr, resetDevices)
\* is entered
Reconcile ==
    /\ pc = "reconcile"
    /\ \/ \* storage.removeSession or closeOpenSessionForDevice throws
          /\ exc' = TRUE
          /\ failed' = TRUE
          /\ pc' = "unwind"
          /\ fr' = NoFrame
          /\ UNCHANGED <<sess, kq>>
       \/ /\ sess' = IF fr.drift.code = 409
                     THEN SessWith(fr.drift.extraDevices, "none")
                     ELSE SessWith({d \in fr.drift.staleDevices : HasOpenSession(d)}, "closed")
          /\ LET resetDevices == IF fr.drift.code = 410 THEN fr.drift.staleDevices
                                 ELSE fr.drift.missingDevices
             IN kq' = [NoKeys EXCEPT !.ctx = "reconcile", !.upd = SortedSeq(resetDevices),
                                     !.todo = SortedSeq(resetDevices)]
          /\ fr' = [fr EXCEPT !.prevDevs = fr.deviceIds, !.dropped = {}]
          /\ pc' = "keysLoop"
          /\ UNCHANGED <<exc, failed>>
    /\ UNCHANGED <<isOwn, trusted, outcome, depth, jb, sent, errors, transmits,
                   keychanges, scanFailed>>
    /\ UNCHANGED <<padVars, recvVars, connVars, emitVars, drainVars>>

\* the reloadDevicesAndSend of line 354 is over: its exception is journaled
\* (lines 355-358), its return leads to emitSent (line 364)
DoSendMessageResume ==
    /\ pc = "unwind"
    /\ depth > 0
    /\ depth' = depth - 1
    /\ exc' = FALSE
    /\ IF exc
       THEN /\ errors' = EmitError("Failed to reload device keys")
            /\ UNCHANGED sent
       ELSE /\ sent' = EmitSent
            /\ UNCHANGED errors
    /\ UNCHANGED <<sess, isOwn, trusted, pc, outcome, fr, kq, jb, transmits, keychanges,
                   scanFailed, failed>>
    /\ UNCHANGED <<padVars, recvVars, connVars, emitVars, drainVars>>

\* SendToAddrReturn without the catch of lines 421-423: the exception leaves
\* sendToAddr
SendToAddrRethrow ==
    /\ pc = "unwind"
    /\ depth = 0
    /\ exc' = FALSE
    /\ pc' = "done"
    /\ outcome' = IF exc THEN "thrown" ELSE "returned"
    /\ jb' = NoJobs
    /\ UNCHANGED <<sess, isOwn, trusted, depth, fr, kq, sent, errors, transmits,
                   keychanges, scanFailed, failed>>
    /\ UNCHANGED <<padVars, recvVars, connVars, emitVars, drainVars>>

\* sendToAddr lines 419-424: the reloadDevicesAndSend of line 420 is over, and
\* sendToAddr returns; what the jobs still running do is no part of the call
SendToAddrReturn ==
    /\ pc = "unwind"
    /\ depth = 0
    /\ errors' = IF exc THEN EmitError("Failed to send to address") ELSE errors
    /\ exc' = FALSE
    /\ pc' = "done"
    /\ outcome' = "returned"
    /\ jb' = NoJobs
    /\ UNCHANGED <<sess, isOwn, trusted, depth, fr, kq, sent, transmits, keychanges,
                   scanFailed, failed>>
    /\ UNCHANGED <<padVars, recvVars, connVars, emitVars, drainVars>>

Next ==
    \/ GetStaleDeviceIdsForAddr
    \/ KeysLoopDevice
    \/ KeysReentrantDevice
    \/ KeysReentrantReturn
    \/ KeysReturn
    \/ KeysAll
    \/ \E d \in Devices : JobReject(d)
    \/ \E d \in Devices : JobBuild(d)
    \/ \E d \in Devices : JobKeychange(d)
    \/ ReloadDevicesAndSend
    \/ DoSendMessageEncrypt
    \/ TransmitMessage
    \/ Reconcile
    \/ DoSendMessageResume
    \/ SendToAddrReturn

Spec == Init /\ [][Next]_vars

FairSpec == Spec /\ WF_vars(Next)

\* the store holds no session of addr, and addr is our own address
\* (storage.getDeviceIds(addr) is empty, storage.getState('addr') === addr)
InitOwn ==
    /\ sess = [d \in Devices |-> "none"]
    /\ isOwn = TRUE
    /\ trusted = "k0"
    /\ SendStart
    /\ PadInit
    /\ RecvInit
    /\ ConnInit
    /\ EmitInit
    /\ DrainInit

\* sendToAddr(addr) to our own address with no device stored
SpecOwn == InitOwn /\ [][Next]_vars

(***************************************************************************)
(* The padding: doSendMessage lines 318-324 and MessageReceiver.unpad.     *)
(***************************************************************************)
\* the bytes told apart: 0x00, 0x80 and one other value
Bytes == {0, 1, Terminator}

\* getPaddedMessageLength without the room for the terminator (line 310)
GetPaddedMessageLengthNoTerminator(messageLength) ==
    LET messagePartCount == messageLength \div BlockSize
    IN IF messageLength % BlockSize # 0
       THEN (messagePartCount + 1) * BlockSize
       ELSE messagePartCount * BlockSize

\* getPaddedMessageLength (lines 309-316)
GetPaddedMessageLength(messageLength) ==
    LET messageLengthWithTerminator == messageLength + 1
        messagePartCount == messageLengthWithTerminator \div BlockSize
    IN IF messageLengthWithTerminator % BlockSize # 0
       THEN (messagePartCount + 1) * BlockSize
       ELSE messagePartCount * BlockSize

\* paddedBuf of doSendMessage (lines 320-324): a zero-filled buffer of minLen
\* bytes, mBuf copied to its start, 0x80 written at offset mBuf.byteLength
Pad(mBuf) ==
    LET minLen == GetPaddedMessageLength(Len(mBuf) + 1) - 1
    IN [i \in 1..minLen |-> IF i <= Len(mBuf) THEN mBuf[i]
                            ELSE IF i = Len(mBuf) + 1 THEN Terminator
                            ELSE 0]

\* an unpad that cuts at the first 0x80 from the start
UnpadFirst(buf) ==
    LET found == {i \in 1..Len(buf) : buf[i] = Terminator}
    IN IF found = {} THEN [ok |-> "Invalid buffer", buf |-> <<>>]
       ELSE LET i == CHOOSE x \in found : \A y \in found : x <= y
            IN [ok |-> "ok", buf |-> SubSeq(buf, 1, i - 1)]

\* MessageReceiver.unpad (lines 304-313): the loop runs from the last byte
\* down and leaves at the first byte that is 0x80 (it returns the bytes before
\* it) or that is not 0x00 (it throws); it ends when no such byte is left
Unpad(buf) ==
    LET leave == {i \in 1..Len(buf) : buf[i] = Terminator \/ buf[i] # 0}
    IN IF leave = {} THEN [ok |-> "Invalid buffer", buf |-> <<>>]
       ELSE LET i == CHOOSE x \in leave : \A y \in leave : y <= x
            IN IF buf[i] = Terminator
               THEN [ok |-> "ok", buf |-> SubSeq(buf, 1, i - 1)]
               ELSE [ok |-> "Invalid padding", buf |-> <<>>]

\* the sequences over Bytes of length up to n
SeqsUpTo(n) == UNION {[1..k -> Bytes] : k \in 0..n}

\* n copies of the byte b
Fill(n, b) == [i \in 1..n |-> b]

\* the sender pads a message (doSendMessage lines 320-324)
PadMessage ==
    /\ padPc = "idle"
    /\ \E n \in 0..MaxFill : \E b \in Bytes : \E tail \in SeqsUpTo(MaxTail) :
          /\ msg' = Fill(n, b) \o tail
          /\ padded' = Pad(Fill(n, b) \o tail)
    /\ padPc' = "padded"
    /\ UNCHANGED unpadded
    /\ UNCHANGED <<sendVars, recvVars, connVars, emitVars, drainVars>>

\* a cipher of the receiver returns a plaintext that no sender padded
\* (decrypt, lines 319-325)
ReceiveBuffer ==
    /\ padPc = "idle"
    /\ \E buf \in SeqsUpTo(MaxBuf) : padded' = buf
    /\ padPc' = "received"
    /\ UNCHANGED <<msg, unpadded>>
    /\ UNCHANGED <<sendVars, recvVars, connVars, emitVars, drainVars>>

\* decrypt line 326: this.unpad(plainBuf)
UnpadBuffer ==
    /\ padPc \in {"padded", "received"}
    /\ unpadded' = Unpad(padded)
    /\ padPc' = IF padPc = "padded" THEN "roundtrip" ELSE "unpadded"
    /\ UNCHANGED <<msg, padded>>
    /\ UNCHANGED <<sendVars, recvVars, connVars, emitVars, drainVars>>

NextPad ==
    \/ PadMessage
    \/ ReceiveBuffer
    \/ UnpadBuffer

SpecPad == InitQuiet /\ [][NextPad]_vars

(***************************************************************************)
(* MessageReceiver: the requests of the socket, the queue of queueAsync,   *)
(* handleRequest and handleEnvelope.                                       *)
(***************************************************************************)
\* this.addr and this.deviceId of the receiver (constructor, lines 90-91)
OwnAddr == "me"
OwnDeviceId == 1

\* the addresses envelopes come from, and the device ids they name
Sources == {"alice", "mallory", OwnAddr}
SourceDevices == {OwnDeviceId, 2}

\* the block list of the store: storage.isBlocked answers true for mallory
Blocked == {"mallory"}

\* the requests the socket can deliver: the queue-empty notice, a request for
\* another resource, and PUT /api/v1/message with an envelope, which is a
\* RECEIPT, a CIPHERTEXT or of a type decrypt does not know, and carries
\* content, a legacyMessage or neither.  A RECEIPT is drawn without a body,
\* an envelope of the blocked source and one of the own address with or
\* without content, an envelope of unknown type with content.
Envelope(a, t, b) == [path |-> "/api/v1/message", source |-> a, type |-> t, body |-> b]

RequestShapes ==
    {[path |-> p, source |-> "alice", type |-> "CIPHERTEXT", body |-> "none"] :
        p \in {"/api/v1/queue/empty", "/other"}}
    \cup {Envelope(a, "RECEIPT", "none") : a \in {"alice", "mallory"}}
    \cup {Envelope("alice", "CIPHERTEXT", b) : b \in {"content", "legacyMessage", "none"}}
    \cup {Envelope(a, "CIPHERTEXT", b) : a \in {"mallory", OwnAddr}, b \in {"content", "none"}}
    \cup {Envelope("alice", "UNKNOWN", "content")}

\* a request holds its resource (path), the envelope it carries (source, type,
\* body), its position (st), the code it was responded with last (resp), the
\* number of request.respond calls (responds), how its job ended (result),
\* whether handleEnvelope was called for it (decoded) and whether
\* handleEnvelope threw (thrown)
\* the positions of a request: queued, in handleRequest before the envelope is
\* decoded, in handleEnvelope before the block check, before the handler runs
\* (the first time, or again after an accepted key change), before
\* request.respond(200) in the finally block, and done
Handling == {"request", "envelope", "handler", "reentry", "respond"}

\* the requests being handled
InHandling == {r \in 1..Len(requests) : requests[r].st \in Handling}

\* the events a request's handling dispatched, in order
EventsOf(r) == SelectSeq(events, LAMBDA e : e.req = r)

\* queueAsync(bucket, awaitable): the job is appended to the bucket's queue
QueueAsync(r) == [st |-> "queued", rq |-> Append(rq, r)]

\* a socket that calls this.handleRequest(request) itself
HandleRequestDirect(r) == [st |-> "request", rq |-> rq]

\* the handleRequest option of the WebSocketResource (line 96):
\* request => queueAsync(this, this.handleRequest.bind(this, request))
HandleRequestOption(r) == QueueAsync(r)

\* a request arrives: the socket calls its handleRequest option
Arrive ==
    /\ sock = "up"
    /\ Len(requests) < MaxRequests
    /\ \E shape \in RequestShapes :
          LET r == Len(requests) + 1
              h == HandleRequestOption(r)
          IN /\ requests' = Append(requests,
                    [path |-> shape.path, source |-> shape.source, type |-> shape.type,
                     body |-> shape.body, st |-> h.st, resp |-> 0, responds |-> 0,
                     result |-> "none", decoded |-> FALSE, thrown |-> FALSE])
             /\ rq' = h.rq
    /\ UNCHANGED <<events, decrypted, touched, env>>
    /\ UNCHANGED <<sendVars, padVars, connVars, emitVars, drainVars>>

\* the executor of the queue takes the next job when the one before it has
\* resolved or rejected
QueueExecutor ==
    /\ rq # <<>>
    /\ InHandling = {}
    /\ requests' = [requests EXCEPT ![Head(rq)].st = "request"]
    /\ rq' = Tail(rq)
    /\ UNCHANGED <<events, decrypted, touched, env>>
    /\ UNCHANGED <<sendVars, padVars, connVars, emitVars, drainVars>>

\* a block check that lets every source pass
IsBlockedNever(source) == FALSE

\* storage.isBlocked(envelope.source) (line 248)
IsBlocked(source) == source \in Blocked

\* request.respond(code, reason)
RespondWith(q, code) == [q EXCEPT !.resp = code, !.responds = @ + 1]

\* an event of the receiver: its type, ev.proto (the request of the envelope,
\* 0 when the event carries none) and ev.data.keyChange
Event(r, t, proto, keyChange) ==
    [req |-> r, type |-> t, proto |-> proto, keyChange |-> keyChange]

\* handleRequest lines 216-239: the resource is checked and the envelope
\* decrypted and decoded
HandleRequest(r) ==
    /\ r \in 1..Len(requests)
    /\ requests[r].st = "request"
    /\ \/ /\ requests[r].path = "/api/v1/queue/empty"
          /\ requests' = [requests EXCEPT
                ![r] = [RespondWith(@, 200) EXCEPT !.st = "done", !.result = "resolved"]]
          /\ UNCHANGED <<events, env>>
       \/ /\ requests[r].path = "/other"
          /\ requests' = [requests EXCEPT
                ![r] = [RespondWith(@, 400) EXCEPT !.st = "done", !.result = "rejected"]]
          /\ UNCHANGED <<events, env>>
       \/ \* decryptWebsocketMessage or Envelope.decode throws
          /\ requests[r].path = "/api/v1/message"
          /\ requests' = [requests EXCEPT
                ![r] = [RespondWith(@, 500) EXCEPT !.st = "done", !.result = "rejected"]]
          /\ events' = Append(events, Event(r, "error", 0, FALSE))
          /\ UNCHANGED env
       \/ /\ requests[r].path = "/api/v1/message"
          /\ requests' = [requests EXCEPT ![r].st = "envelope", ![r].decoded = TRUE]
          /\ \E d \in SourceDevices :
                env' = [NoEnvelope EXCEPT !.req = r, !.sourceDevice = d]
          /\ UNCHANGED events
    /\ UNCHANGED <<rq, decrypted, touched>>
    /\ UNCHANGED <<sendVars, padVars, connVars, emitVars, drainVars>>

\* handleEnvelope lines 247-261: the block check and the choice of the handler
HandleEnvelope(r) ==
    /\ r \in 1..Len(requests)
    /\ requests[r].st = "envelope"
    /\ requests' =
          IF IsBlocked(requests[r].source)
          THEN [requests EXCEPT ![r].st = "respond"]
          ELSE IF requests[r].type # "RECEIPT" /\ requests[r].body = "none"
          THEN [requests EXCEPT ![r].st = "respond", ![r].thrown = TRUE]
          ELSE [requests EXCEPT ![r].st = "handler"]
    /\ UNCHANGED <<rq, events, decrypted, touched, env>>
    /\ UNCHANGED <<sendVars, padVars, connVars, emitVars, drainVars>>

\* what the session cipher and unpad throw (decrypt, lines 315-327): the
\* errors of libsignal, and Error for a padding violation
DecryptErrors == {"MessageCounterError", "UntrustedIdentityKeyError", "PreKeyError",
                  "SessionError", "Error"}

\* what Content.decode makes of the plaintext: a data message (with the
\* END_SESSION flag, or one exchange.decode rejects), a sync message (sent,
\* sent with END_SESSION, read with one or two entries, contacts / groups /
\* request, blocked, none of them), neither, or bytes it cannot decode
SyncKinds == {"syncSent", "syncSentEndSession", "syncRead", "syncRead2",
              "syncDeprecated", "syncBlocked", "syncEmpty"}
DataKinds == {"data", "dataEndSession", "dataInvalid"}
ContentKinds == SyncKinds \cup DataKinds \cup {"empty", "undecodable"}
\* what DataMessage.decode makes of a legacy plaintext
LegacyKinds == DataKinds \cup {"undecodable"}

\* what a handler did: the types of the events it dispatched, the exception
\* it threw, whether handleEndSession closed the sessions of the source
Did(types, error, endSession) ==
    [types |-> types, error |-> error, endSession |-> endSession]

\* handleDataMessage (lines 359-382)
HandleDataMessage(c) ==
    CASE c = "data" -> Did(<<"message">>, "none", FALSE)
      [] c = "dataEndSession" -> Did(<<"message">>, "none", TRUE)
      [] OTHER -> Did(<<>>, "Error", FALSE)

\* a sync message of any origin is let through
FromAnywhere(source, sourceDevice) == "none"

\* handleSyncMessage lines 402-407: the origin of a sync message
SyncOriginError(source, sourceDevice) ==
    IF source # OwnAddr THEN "ReferenceError"
    ELSE IF sourceDevice = OwnDeviceId THEN "ReferenceError"
    ELSE "none"

\* handleSyncMessage (lines 401-426), handleSentMessage, handleRead and
\* handleBlocked
HandleSyncMessage(source, sourceDevice, c) ==
    IF SyncOriginError(source, sourceDevice) # "none"
    THEN Did(<<>>, SyncOriginError(source, sourceDevice), FALSE)
    ELSE CASE c = "syncSent" -> Did(<<"sent">>, "none", FALSE)
           [] c = "syncSentEndSession" -> Did(<<>>, "none", FALSE)
           [] c = "syncRead" -> Did(<<"read">>, "none", FALSE)
           [] c = "syncRead2" -> Did(<<"read", "read">>, "none", FALSE)
           [] c = "syncDeprecated" -> Did(<<>>, "TypeError", FALSE)
           [] c = "syncBlocked" -> Did(<<>>, "Error", FALSE)
           [] OTHER -> Did(<<>>, "none", FALSE)

\* handleContentMessage lines 391-398 and handleLegacyMessage line 386: the
\* plaintext is decoded and routed
HandleDecoded(source, sourceDevice, c) ==
    CASE c = "undecodable" -> Did(<<>>, "Error", FALSE)
      [] c \in SyncKinds -> HandleSyncMessage(source, sourceDevice, c)
      [] c \in DataKinds -> HandleDataMessage(c)
      [] OTHER -> Did(<<>>, "TypeError", FALSE)

\* the ways a call of the handler can go (line 263): the answer of the
\* cipher, the content decoded, and what the handler did
HandlerRuns(q, sourceDevice) ==
    IF q.type = "RECEIPT"
    THEN \* handleDeliveryReceipt
         {[answer |-> "none", content |-> "none", did |-> Did(<<"receipt">>, "none", FALSE)]}
    ELSE IF q.type = "UNKNOWN"
    THEN \* decrypt: Unknown message type
         {[answer |-> "none", content |-> "none", did |-> Did(<<>>, "TypeError", FALSE)]}
    ELSE {[answer |-> a, content |-> "none", did |-> Did(<<>>, a, FALSE)] : a \in DecryptErrors}
         \cup
         {[answer |-> "ok", content |-> c, did |-> HandleDecoded(q.source, sourceDevice, c)] :
             c \in IF q.body = "content" THEN ContentKinds ELSE LegacyKinds}

\* a catch block that knows no duplicate
IsDuplicateNever(e) == FALSE

\* line 265: e instanceof libsignal.MessageCounterError
IsDuplicate(e) == e = "MessageCounterError"

\* an accepted key change that leaves the envelope unmarked
KeyChangeUnmarked(accepted) == FALSE

\* lines 275-276: envelope.keyChange = true when the key change was accepted
KeyChangeMark(accepted) == accepted

\* a catch block that asks about a key change on every handling
KeyChangeAskedAgain(e, reentrant) == e = "UntrustedIdentityKeyError"

\* line 268: e instanceof libsignal.UntrustedIdentityKeyError && !reentrant
KeyChangeAsked(e, reentrant) == e = "UntrustedIdentityKeyError" /\ ~reentrant

\* a catch block that resets the session without new prekeys
ResetCallsNoRefresh(e) == <<"closeSession">>

\* lines 280-290: the calls the catch block makes for a session error, in order
ResetCalls(e) ==
    IF e = "PreKeyError"
    THEN <<"generateKeys", "registerKeys", "closeSession">>
    ELSE <<"closeSession">>

\* handleEnvelope lines 262-295: the handler runs and its exception is handled
Handler(r) ==
    /\ r \in 1..Len(requests)
    /\ requests[r].st \in {"handler", "reentry"}
    /\ env.req = r
    /\ \E run \in HandlerRuns(requests[r], env.sourceDevice) :
          LET reentrant == requests[r].st = "reentry"
              e == run.did.error
              ran == [env EXCEPT !.runs = @ + 1,
                                 !.answers = IF run.answer = "none" THEN @
                                             ELSE Append(@, run.answer),
                                 !.content = run.content,
                                 !.caught = e]
              dispatched ==
                  events \o [i \in 1..Len(run.did.types) |->
                      Event(r, run.did.types[i],
                            IF run.did.types[i] = "receipt" THEN r ELSE 0,
                            run.did.types[i] = "message" /\ env.keyChange)]
              over == [requests EXCEPT ![r].st = "respond"]
              errorEvent == Append(dispatched, Event(r, "error", r, FALSE))
          IN /\ decrypted' = IF requests[r].type = "RECEIPT" THEN decrypted
                             ELSE decrypted \cup {r}
             /\ CASE e = "none" ->
                        /\ events' = dispatched
                        /\ requests' = over
                        /\ env' = ran
                        /\ touched' = IF run.did.endSession THEN touched \cup {r}
                                      ELSE touched
                  [] IsDuplicate(e) ->
                        /\ requests' = over
                        /\ env' = ran
                        /\ UNCHANGED <<events, touched>>
                  [] KeyChangeAsked(e, reentrant) ->
                        /\ events' = Append(dispatched, Event(r, "keychange", r, FALSE))
                        /\ \E accepted \in BOOLEAN :
                              /\ requests' = IF accepted
                                             THEN [requests EXCEPT ![r].st = "reentry"]
                                             ELSE over
                              /\ env' = [ran EXCEPT
                                            !.accepted = IF accepted THEN "yes" ELSE "no",
                                            !.keyChange = KeyChangeMark(accepted)]
                        /\ UNCHANGED touched
                  [] e \in {"PreKeyError", "SessionError"} ->
                        \/ \* every call returns, and the error event is dispatched
                           /\ touched' = touched \cup {r}
                           /\ env' = [ran EXCEPT !.steps = ResetCalls(e) \o <<"error">>]
                           /\ events' = errorEvent
                           /\ requests' = over
                        \/ \* generateKeys, registerKeys or closeSession throws
                           \E k \in 1..Len(ResetCalls(e)) :
                              LET made == SubSeq(ResetCalls(e), 1, k)
                              IN /\ touched' = IF made[k] = "closeSession"
                                               THEN touched \cup {r} ELSE touched
                                 /\ env' = [ran EXCEPT !.steps = made]
                                 /\ requests' = [over EXCEPT ![r].thrown = TRUE]
                                 /\ UNCHANGED events
                  [] OTHER ->
                        /\ events' = errorEvent
                        /\ requests' = over
                        /\ env' = [ran EXCEPT !.steps = <<"error">>]
                        /\ UNCHANGED touched
    /\ UNCHANGED rq
    /\ UNCHANGED <<sendVars, padVars, connVars, emitVars, drainVars>>

\* a handleRequest that responds after a handleEnvelope that returned only
RespondsOnSuccess(thrown) == ~thrown

\* lines 240-244: request.respond(200) stands in the finally block
RespondsInFinally(thrown) == TRUE

\* handleRequest lines 240-244: handleEnvelope is over, the finally block
\* responds 200, and the job resolves or rejects
Respond(r) ==
    /\ r \in 1..Len(requests)
    /\ requests[r].st = "respond"
    /\ LET q == requests[r]
           responded == IF RespondsInFinally(q.thrown) THEN RespondWith(q, 200) ELSE q
       IN requests' = [requests EXCEPT
             ![r] = [responded EXCEPT
                        !.st = "done",
                        !.result = IF q.thrown THEN "rejected" ELSE "resolved"]]
    /\ UNCHANGED <<rq, events, decrypted, touched, env>>
    /\ UNCHANGED <<sendVars, padVars, connVars, emitVars, drainVars>>

NextRecv ==
    \/ Arrive
    \/ QueueExecutor
    \/ \E r \in 1..MaxRequests : HandleRequest(r)
    \/ \E r \in 1..MaxRequests : HandleEnvelope(r)
    \/ \E r \in 1..MaxRequests : Handler(r)
    \/ \E r \in 1..MaxRequests : Respond(r)

SpecRecv == InitConnected /\ [][NextRecv]_vars

(***************************************************************************)
(* MessageReceiver: connect, close, onSocketClose and checkRegistration.   *)
(* A promise that settles puts the continuations awaiting it on the queue  *)
(* of ready continuations, which run first in first out; the events of the *)
(* transport and the calls the application makes from its own tasks come   *)
(* when that queue is empty.                                               *)
(***************************************************************************)
\* every connect() call may start a reconnect loop
LoopIds == 1..(MaxCalls + MaxCloses)

\* the continuations: a loop after wsr.connect() settled ("attempt") or after
\* checkRegistration returned ("probe"), a connect() call after
\* `await this._connecting` ("clear"), a continuation of the application that
\* calls connect() ("app"), onSocketClose after its
\* checkRegistration returned ("osc")
Task(k, id, ok) == [k |-> k, id |-> id, ok |-> ok]

ClearTask == Task("clear", 0, TRUE)

\* the promise of loop i resolves: the connect() calls awaiting it become
\* ready, in the order they awaited
ResolveLoop(i, q) ==
    /\ micro' = q \o [j \in 1..Len(SelectSeq(waiters, LAMBDA w : w = i)) |-> ClearTask]
    /\ waiters' = SelectSeq(waiters, LAMBDA w : w # i)

\* a loop that goes on after close()
LoopContinuesAlways == TRUE

\* a loop that makes no further attempt
LoopGivesUp == FALSE

\* line 145, reached after a failed attempt: while (!this._closing)
LoopContinues == ~closing

\* lines 137-139: connect() throws when this._closing is set
ConnectAllowed == ~closing

\* checkRegistration (lines 120-130): getDevices, and an error event when it
\* throws
CheckRegistration(ok) == IF ok THEN "ok" ELSE "failed, error event"

\* connect() lines 136-159, up to `await this._connecting`; q holds the ready
\* continuations
ConnectCall(q) ==
    IF ~ConnectAllowed
    THEN \* throw new Error("Invalid State: Already Closed")
         /\ seen' = seen \cup {"threw"}
         /\ micro' = q
         /\ UNCHANGED <<connecting, loops, waiters, late>>
    ELSE IF connecting # 0
    THEN \* Duplicate connect detected: the call awaits the loop in flight
         /\ IF loops[connecting] = "done"
            THEN /\ micro' = Append(q, ClearTask)
                 /\ UNCHANGED waiters
            ELSE /\ micro' = q
                 /\ waiters' = Append(waiters, connecting)
         /\ seen' = seen
         /\ late' = IF closing THEN late \cup {"connect"} ELSE late
         /\ UNCHANGED <<connecting, loops>>
    ELSE \* the loop starts and runs up to its first await
         LET i == Len(loops) + 1
         IN /\ i \in LoopIds
            /\ connecting' = i
            /\ seen' = seen
            /\ IF ~closing
               THEN \* line 145 holds on entry, wsr.connect() is called
                    /\ loops' = Append(loops, "connect")
                    /\ waiters' = Append(waiters, i)
                    /\ micro' = q
                    /\ late' = IF closing THEN late \cup {"attempt"} ELSE late
               ELSE /\ loops' = Append(loops, "done")
                    /\ micro' = Append(q, ClearTask)
                    /\ late' = IF closing THEN late \cup {"connect"} ELSE late
                    /\ UNCHANGED waiters

\* the application calls connect() from a task of its own
AppConnect ==
    /\ micro = <<>>
    /\ calls < MaxCalls
    /\ calls' = calls + 1
    /\ ConnectCall(micro)
    /\ UNCHANGED <<closing, sock, oscs, accepting, closes, lastProbe>>
    /\ UNCHANGED <<sendVars, padVars, recvVars, emitVars, drainVars>>

\* a continuation of the application that will call connect() becomes ready
AppDefer ==
    /\ calls < MaxCalls
    /\ calls' = calls + 1
    /\ micro' = Append(micro, Task("app", 0, TRUE))
    /\ UNCHANGED <<closing, connecting, loops, waiters, sock, oscs, accepting, closes,
                   lastProbe, seen, late>>
    /\ UNCHANGED <<sendVars, padVars, recvVars, emitVars, drainVars>>

\* the continuation of the application runs: it calls connect()
AppContinuation ==
    /\ micro # <<>>
    /\ Head(micro).k = "app"
    /\ ConnectCall(Tail(micro))
    /\ UNCHANGED <<closing, sock, oscs, accepting, calls, closes, lastProbe>>
    /\ UNCHANGED <<sendVars, padVars, recvVars, emitVars, drainVars>>

\* connect() lines 159-160: the awaited loop has resolved, the call clears
\* this._connecting and returns
ConnectResume ==
    /\ micro # <<>>
    /\ Head(micro).k = "clear"
    /\ micro' = Tail(micro)
    /\ connecting' = 0
    /\ UNCHANGED <<closing, loops, waiters, sock, oscs, accepting, calls, closes,
                   lastProbe, seen, late>>
    /\ UNCHANGED <<sendVars, padVars, recvVars, emitVars, drainVars>>

\* the service and the network recover: no attempt is refused any more
TransportRecovers ==
    /\ ~accepting
    /\ accepting' = TRUE
    /\ UNCHANGED <<closing, connecting, loops, waiters, micro, sock, oscs, calls, closes,
                   lastProbe, seen, late>>
    /\ UNCHANGED <<sendVars, padVars, recvVars, emitVars, drainVars>>

\* the transport accepts or refuses the attempt of a loop (wsr.connect(),
\* line 147)
TransportSettles ==
    /\ \E i \in 1..Len(loops), ok \in BOOLEAN :
          /\ loops[i] = "connect"
          /\ ~ok => ~accepting
          /\ loops' = [loops EXCEPT ![i] = "ready"]
          /\ micro' = Append(micro, Task("attempt", i, ok))
          /\ sock' = IF ok /\ ~closing THEN "up" ELSE sock
    /\ UNCHANGED <<closing, connecting, waiters, oscs, accepting, calls, closes, lastProbe,
                   seen, late>>
    /\ UNCHANGED <<sendVars, padVars, recvVars, emitVars, drainVars>>

\* the loop after `await this.wsr.connect()` (lines 147-153): it returns, or
\* calls checkRegistration
LoopAfterAttempt ==
    /\ micro # <<>>
    /\ Head(micro).k = "attempt"
    /\ LET i == Head(micro).id
       IN IF Head(micro).ok
          THEN /\ loops' = [loops EXCEPT ![i] = "done"]
               /\ ResolveLoop(i, Tail(micro))
          ELSE /\ loops' = [loops EXCEPT ![i] = "probe"]
               /\ micro' = Tail(micro)
               /\ UNCHANGED waiters
    /\ UNCHANGED <<closing, connecting, sock, oscs, accepting, calls, closes, lastProbe,
                   seen, late>>
    /\ UNCHANGED <<sendVars, padVars, recvVars, emitVars, drainVars>>

\* signal.getDevices of the checkRegistration of a loop answers or fails
ProbeSettles ==
    /\ \E i \in 1..Len(loops), ok \in BOOLEAN :
          /\ loops[i] = "probe"
          /\ loops' = [loops EXCEPT ![i] = "ready"]
          /\ micro' = Append(micro, Task("probe", i, ok))
    /\ UNCHANGED <<closing, connecting, waiters, sock, oscs, accepting, calls, closes,
                   lastProbe, seen, late>>
    /\ UNCHANGED <<sendVars, padVars, recvVars, emitVars, drainVars>>

\* the loop after `await this.checkRegistration()` (lines 153-156 and 145):
\* the next attempt, or the end of the loop
LoopAfterProbe ==
    /\ micro # <<>>
    /\ Head(micro).k = "probe"
    /\ lastProbe' = CheckRegistration(Head(micro).ok)
    /\ LET i == Head(micro).id
       IN IF LoopContinues
          THEN /\ loops' = [loops EXCEPT ![i] = "connect"]
               /\ micro' = Tail(micro)
               /\ late' = IF closing THEN late \cup {"attempt"} ELSE late
               /\ seen' = seen \cup {"retried"}
               /\ UNCHANGED waiters
          ELSE /\ loops' = [loops EXCEPT ![i] = "done"]
               /\ ResolveLoop(i, Tail(micro))
               /\ seen' = seen \cup {"exited"}
               /\ UNCHANGED late
    /\ UNCHANGED <<closing, connecting, sock, oscs, accepting, calls, closes>>
    /\ UNCHANGED <<sendVars, padVars, recvVars, emitVars, drainVars>>

\* close() (lines 166-169): the flag is set and wsr.close() called; a
\* transport that is up raises its close event later, one that is not may
\* raise it
Close ==
    /\ micro = <<>>
    /\ ~closing
    /\ closing' = TRUE
    /\ sock' \in IF sock = "up" THEN {"closing"} ELSE {"closing", "closed"}
    /\ UNCHANGED <<connecting, loops, waiters, micro, oscs, accepting, calls, closes,
                   lastProbe, seen, late>>
    /\ UNCHANGED <<sendVars, padVars, recvVars, emitVars, drainVars>>

\* lines 206-208 and 211: onSocketClose goes on while this._closing is unset
SocketCloseGoesOn == ~closing

\* the transport raises its close event, by itself or after wsr.close();
\* onSocketClose (lines 205-210) runs up to `await this.checkRegistration()`
SocketClose ==
    /\ micro = <<>>
    /\ sock \in {"up", "closing"}
    /\ sock = "up" => closes < MaxCloses
    /\ closes' = IF sock = "up" THEN closes + 1 ELSE closes
    /\ sock' = IF sock = "up" THEN "down" ELSE "closed"
    /\ IF SocketCloseGoesOn
       THEN /\ oscs' = oscs + 1
            /\ late' = IF closing THEN late \cup {"probe"} ELSE late
            /\ seen' = seen
       ELSE /\ seen' = seen \cup {"ignored"}
            /\ UNCHANGED <<oscs, late>>
    /\ UNCHANGED <<closing, connecting, loops, waiters, micro, accepting, calls, lastProbe>>
    /\ UNCHANGED <<sendVars, padVars, recvVars, emitVars, drainVars>>

\* signal.getDevices of the checkRegistration of an onSocketClose answers or
\* fails
SocketProbeSettles ==
    /\ oscs > 0
    /\ oscs' = oscs - 1
    /\ \E ok \in BOOLEAN : micro' = Append(micro, Task("osc", 0, ok))
    /\ UNCHANGED <<closing, connecting, loops, waiters, sock, accepting, calls, closes,
                   lastProbe, seen, late>>
    /\ UNCHANGED <<sendVars, padVars, recvVars, emitVars, drainVars>>

\* onSocketClose after `await this.checkRegistration()` (lines 210-213)
OnSocketCloseResume ==
    /\ micro # <<>>
    /\ Head(micro).k = "osc"
    /\ lastProbe' = CheckRegistration(Head(micro).ok)
    /\ IF SocketCloseGoesOn
       THEN ConnectCall(Tail(micro))
       ELSE /\ micro' = Tail(micro)
            /\ seen' = seen \cup {"skipped"}
            /\ UNCHANGED <<connecting, loops, waiters, late>>
    /\ UNCHANGED <<closing, sock, oscs, accepting, calls, closes>>
    /\ UNCHANGED <<sendVars, padVars, recvVars, emitVars, drainVars>>

NextConn ==
    \/ AppConnect
    \/ AppDefer
    \/ AppContinuation
    \/ ConnectResume
    \/ TransportRecovers
    \/ TransportSettles
    \/ LoopAfterAttempt
    \/ ProbeSettles
    \/ LoopAfterProbe
    \/ Close
    \/ SocketClose
    \/ SocketProbeSettles
    \/ OnSocketCloseResume

SpecConn == InitQuiet /\ [][NextConn]_vars

\* the transport accepts in the end, every promise that can settle does, and
\* every ready continuation runs
FairConn ==
    /\ SpecConn
    /\ WF_vars(TransportRecovers)
    /\ WF_vars(TransportSettles)
    /\ WF_vars(ProbeSettles)
    /\ WF_vars(SocketProbeSettles)
    /\ WF_vars(AppContinuation)
    /\ WF_vars(ConnectResume)
    /\ WF_vars(LoopAfterAttempt)
    /\ WF_vars(LoopAfterProbe)
    /\ WF_vars(OnSocketCloseResume)

\* the receiver handles requests while the application may call close()
NextClose ==
    \/ Arrive
    \/ QueueExecutor
    \/ \E r \in 1..MaxRequests : HandleRequest(r)
    \/ \E r \in 1..MaxRequests : HandleEnvelope(r)
    \/ \E r \in 1..MaxRequests : Handler(r)
    \/ \E r \in 1..MaxRequests : Respond(r)
    \/ Close

SpecClose == InitConnected /\ [][NextClose]_vars

(***************************************************************************)
(* OutgoingMessage.on and OutgoingMessage.emit.                            *)
(***************************************************************************)
\* what a callback does when it is called: it returns a value, returns a
\* promise that resolves or rejects, or throws
Callbacks == {"returns", "resolves", "rejects", "throws"}

\* an entry of the log: a registration ("on"), a callback "called", a callback
\* that "returned" or "threw" (its promise resolved or rejected), and the
\* promise of emit "resolved" or "rejected"
Entry(k, what) == [listener |-> k, what |-> what]

\* an emit that lets the exception of a callback through
CatchNone == FALSE

\* lines 197-199: the catch block around `await callback.apply(this, args)`
CatchCallback == TRUE

RECURSIVE EmitFrom(_, _)
\* emit lines 194-200: the loop from callback k on, up to the next await or to
\* the end; a callback that throws is caught at once
EmitFrom(k, lg) ==
    IF k > Len(listeners)
    THEN [at |-> 0, log |-> Append(lg, Entry(0, "resolved")), result |-> "resolved"]
    ELSE IF listeners[k] # "throws"
    THEN [at |-> k, log |-> Append(lg, Entry(k, "called")), result |-> "running"]
    ELSE IF CatchCallback
    THEN EmitFrom(k + 1, lg \o <<Entry(k, "called"), Entry(k, "threw")>>)
    ELSE [at |-> 0, result |-> "rejected",
          log |-> lg \o <<Entry(k, "called"), Entry(k, "threw"), Entry(0, "rejected")>>]

\* on(event, callback) (lines 181-187): the callback is pushed
On ==
    /\ Len(listeners) < MaxListeners
    /\ \E b \in Callbacks : listeners' = Append(listeners, b)
    /\ emitLog' = Append(emitLog, Entry(Len(listeners) + 1, "on"))
    /\ UNCHANGED <<emitAt, emitResult, emits>>
    /\ UNCHANGED <<sendVars, padVars, recvVars, connVars, drainVars>>

\* emit(event) is called (lines 189-196): without handlers it returns, else
\* the first callback is called
Emit ==
    /\ emitAt = 0
    /\ emits < MaxEmits
    /\ emits' = emits + 1
    /\ LET run == EmitFrom(1, emitLog)
       IN /\ emitAt' = run.at
          /\ emitLog' = run.log
          /\ emitResult' = run.result
    /\ UNCHANGED listeners
    /\ UNCHANGED <<sendVars, padVars, recvVars, connVars, drainVars>>

\* the promise of the awaited callback settles (lines 196-199): emit goes on
\* with the next callback
ListenerSettles ==
    /\ emitAt > 0
    /\ LET k == emitAt
           rejected == listeners[k] = "rejects"
           settled == Append(emitLog, Entry(k, IF rejected THEN "threw" ELSE "returned"))
           run == IF rejected /\ ~CatchCallback
                  THEN [at |-> 0, log |-> Append(settled, Entry(0, "rejected")),
                        result |-> "rejected"]
                  ELSE EmitFrom(k + 1, settled)
       IN /\ emitAt' = run.at
          /\ emitLog' = run.log
          /\ emitResult' = run.result
    /\ UNCHANGED <<listeners, emits>>
    /\ UNCHANGED <<sendVars, padVars, recvVars, connVars, drainVars>>

NextEmit ==
    \/ On
    \/ Emit
    \/ ListenerSettles

SpecEmit == InitQuiet /\ [][NextEmit]_vars

(***************************************************************************)
(* MessageReceiver.drain.                                                  *)
(***************************************************************************)
\* the receiver is built with or without the stream (noWebSocket, line 94)
InitDrain ==
    /\ sess = [d \in Devices |-> "none"]
    /\ isOwn = FALSE
    /\ trusted = "k0"
    /\ SendStart
    /\ PadInit
    /\ RecvInit
    /\ ConnInit
    /\ EmitInit
    /\ wsr \in BOOLEAN
    /\ dpc = "idle"
    /\ data = NoData
    /\ at = 0
    /\ base = 0
    /\ deleting = <<>>
    /\ dlog = <<>>

\* an entry of the log: the request for messages ("fetch"), its answer with
\* more true ("more") or false ("last"), the call of handleEnvelope
\* ("handle") and its return ("handled") or exception ("threw"), the DELETE
\* request ("delete") and its success ("deleted") or failure ("failed");
\* id counts the envelopes fetched (0: none)
DrainEntry(what, id) == [what |-> what, id |-> id]

\* the requests for messages made
Fetches == Len(SelectSeq(dlog, LAMBDA e : e.what = "fetch"))

\* the answers the messages API can give
Batches ==
    {[messages |-> m, more |-> b] :
        m \in UNION {[1..n -> {"alice", "mallory"}] : n \in 0..MaxBatch},
        b \in BOOLEAN}

\* how handleEnvelope ends for an envelope of a source (lines 247-296): it
\* drops the envelope of a blocked source; otherwise it handles the envelope,
\* drops a duplicate, dispatches an error event, or throws
EnvelopeEnds(source) ==
    IF IsBlocked(source) THEN {"blocked"}
    ELSE {"handled", "duplicate", "error", "threw"}

\* a drain that does not wait for its DELETE requests
AllSettledOrNot(d) == TRUE

\* line 197: Promise.all(deleting) has resolved
AllDeleted(d) == \A i \in 1..Len(d) : d[i] = "done"

\* lines 183-190: the loop goes to the envelope after `at`, or leaves
NextEnvelope(lg) ==
    IF at < Len(data.messages)
    THEN [pc |-> "handle", at |-> at + 1,
          log |-> Append(lg, DrainEntry("handle", base + at + 1))]
    ELSE [pc |-> "deleting", at |-> at, log |-> lg]

\* drain is called (lines 175-180): with the stream it throws, without it the
\* messages are requested
Drain ==
    /\ dpc = "idle"
    /\ IF wsr
       THEN /\ dpc' = "thrown"
            /\ UNCHANGED dlog
       ELSE /\ dpc' = "fetch"
            /\ dlog' = Append(dlog, DrainEntry("fetch", 0))
    /\ UNCHANGED <<wsr, data, at, base, deleting>>
    /\ UNCHANGED <<sendVars, padVars, recvVars, connVars, emitVars>>

\* the request for messages settles (lines 180-190): drain throws, or takes
\* the answer and calls handleEnvelope for its first envelope
DrainFetched ==
    /\ dpc = "fetch"
    /\ \/ /\ dpc' = "thrown"
          /\ UNCHANGED <<data, at, base, deleting, dlog>>
       \/ \E b \in Batches :
             /\ b.more => Fetches < MaxBatches
             /\ data' = b
             /\ base' = base + Len(data.messages)
             /\ deleting' = <<>>
             /\ LET answered == Append(dlog, DrainEntry(IF b.more THEN "more" ELSE "last", 0))
                IN IF b.messages = <<>>
                   THEN /\ dpc' = "deleting"
                        /\ at' = 0
                        /\ dlog' = answered
                   ELSE /\ dpc' = "handle"
                        /\ at' = 1
                        /\ dlog' = Append(answered,
                                     DrainEntry("handle", base + Len(data.messages) + 1))
    /\ UNCHANGED wsr
    /\ UNCHANGED <<sendVars, padVars, recvVars, connVars, emitVars>>

\* handleEnvelope is over (lines 190-196): when it returned the DELETE of the
\* envelope is requested and the loop goes on; its exception leaves drain
DrainHandled ==
    /\ dpc = "handle"
    /\ \E end \in EnvelopeEnds(data.messages[at]) :
          IF end = "threw"
          THEN /\ dpc' = "thrown"
               /\ dlog' = Append(dlog, DrainEntry("threw", base + at))
               /\ UNCHANGED <<at, deleting>>
          ELSE LET next == NextEnvelope(dlog \o <<DrainEntry("handled", base + at),
                                                  DrainEntry("delete", base + at)>>)
               IN /\ deleting' = Append(deleting, "pending")
                  /\ dpc' = next.pc
                  /\ at' = next.at
                  /\ dlog' = next.log
    /\ UNCHANGED <<wsr, data, base>>
    /\ UNCHANGED <<sendVars, padVars, recvVars, connVars, emitVars>>

\* a DELETE request settles
DrainDeleteSettles ==
    /\ dpc \in {"handle", "deleting"}
    /\ \E i \in 1..Len(deleting) : \E ok \in BOOLEAN :
          /\ deleting[i] = "pending"
          /\ deleting' = [deleting EXCEPT ![i] = IF ok THEN "done" ELSE "failed"]
          /\ dlog' = Append(dlog, DrainEntry(IF ok THEN "deleted" ELSE "failed", base + i))
    /\ UNCHANGED <<wsr, dpc, data, at, base>>
    /\ UNCHANGED <<sendVars, padVars, recvVars, connVars, emitVars>>

\* Promise.all(deleting) settles (lines 197-199): a failed DELETE leaves drain,
\* otherwise the messages are requested again while more, or drain returns
DrainDeleted ==
    /\ dpc = "deleting"
    /\ IF \E i \in 1..Len(deleting) : deleting[i] = "failed"
       THEN /\ dpc' = "thrown"
            /\ UNCHANGED dlog
       ELSE /\ AllDeleted(deleting)
            /\ IF data.more
               THEN /\ dpc' = "fetch"
                    /\ dlog' = Append(dlog, DrainEntry("fetch", 0))
               ELSE /\ dpc' = "returned"
                    /\ UNCHANGED dlog
    /\ UNCHANGED <<wsr, data, at, base, deleting>>
    /\ UNCHANGED <<sendVars, padVars, recvVars, connVars, emitVars>>

NextDrain ==
    \/ Drain
    \/ DrainFetched
    \/ DrainHandled
    \/ DrainDeleteSettles
    \/ DrainDeleted

SpecDrain == InitDrain /\ [][NextDrain]_vars

(***************************************************************************)
(* The claims about OutgoingMessage.sendToAddr.                            *)
(***************************************************************************)
\* C1: a sendToAddr call that has returned has appended exactly one entry to
\* sent and errors together.
C1_ExactlyOneEntry == pc = "done" => sent + Len(errors) = 1

\* C2: within one sendToAddr call server.sendMessages is invoked at most twice.
C2_AtMostTwoTransmits == transmits <= 2

\* C3: every sendToAddr call eventually returns, each call it makes returning.
C3_Terminates == <>(pc = "done")

C6_OneKeychange == keychanges <= 1

(***************************************************************************)
(* The claims about the padding.                                           *)
(***************************************************************************)
\* the least multiple of BlockSize that is at least n
CeilBlock(n) == ((n + BlockSize - 1) \div BlockSize) * BlockSize

HasTerminator(buf) == \E i \in 1..Len(buf) : buf[i] = Terminator

\* the offset, counted from 1, of the last 0x80 of buf
LastTerminator(buf) ==
    CHOOSE i \in 1..Len(buf) :
        /\ buf[i] = Terminator
        /\ \A j \in (i + 1)..Len(buf) : buf[j] # Terminator

\* the sender's padded buffer is msg, then 0x80 at offset len, then zeros
PaddedAsDescribed ==
    /\ Len(padded) > Len(msg)
    /\ SubSeq(padded, 1, Len(msg)) = msg
    /\ padded[Len(msg) + 1] = Terminator
    /\ \A i \in (Len(msg) + 2)..Len(padded) : padded[i] = 0

\* C8 as stated: unpad of the sender's padded buffer returns the message;
\* unpad rejects with 'Invalid padding' a buffer in which a byte other than
\* 0x00 follows the last 0x80, and with 'Invalid buffer' a buffer with no 0x80.
C8_AsStated ==
    /\ padPc = "roundtrip" => (PaddedAsDescribed /\ unpadded = [ok |-> "ok", buf |-> msg])
    /\ padPc = "unpadded" =>
          /\ (HasTerminator(padded)
                /\ \E j \in (LastTerminator(padded) + 1)..Len(padded) : padded[j] # 0)
             => unpadded.ok = "Invalid padding"
          /\ ~HasTerminator(padded) => unpadded.ok = "Invalid buffer"

\* C8, amended: unpad of the sender's padded buffer returns the message;
\* unpad rejects with 'Invalid padding' a buffer whose last byte other than
\* 0x00 is not a 0x80 (whether or not a 0x80 comes before it), and with
\* 'Invalid buffer' only a buffer of zeros, the empty buffer included; it
\* cuts any other buffer before its last 0x80.
C8_RoundTrip ==
    /\ padPc = "roundtrip" => (PaddedAsDescribed /\ unpadded = [ok |-> "ok", buf |-> msg])
    /\ padPc = "unpadded" =>
          LET zerosAfter(i) == \A j \in (i + 1)..Len(padded) : padded[j] = 0
          IN /\ unpadded.ok = "Invalid buffer" <=> zerosAfter(0)
             /\ unpadded.ok = "Invalid padding" <=>
                   \E i \in 1..Len(padded) : padded[i] \notin {0, Terminator} /\ zerosAfter(i)
             /\ unpadded.ok = "ok" <=>
                   \E i \in 1..Len(padded) :
                       /\ padded[i] = Terminator
                       /\ zerosAfter(i)
                       /\ unpadded.buf = SubSeq(padded, 1, i - 1)
             /\ unpadded.ok \in {"ok", "Invalid padding", "Invalid buffer"}

\* a message that ends in 0x80 and holds a 0x00 has gone through pad and unpad
C8_Witness ==
    /\ padPc = "roundtrip"
    /\ Len(msg) >= 2
    /\ msg[Len(msg)] = Terminator
    /\ \E i \in 1..Len(msg) : msg[i] = 0
    /\ unpadded.buf = msg

(***************************************************************************)
(* The claims about MessageReceiver.                                       *)
(***************************************************************************)
\* C9: requests are handled one at a time in arrival order: the handling of a
\* request does not start before the handling of every earlier request is
\* over, failed or not, and the events of an earlier request all come before
\* the events of a later one.
C9_Serial ==
    /\ \A i, j \in 1..Len(requests) :
          (i < j /\ requests[j].st # "queued") => requests[i].st = "done"
    /\ \A k \in 1..(Len(events) - 1) : events[k].req <= events[k + 1].req

\* the first request failed with an error event, and the second one, which
\* arrived while it waited or ran, dispatched an event after it
C9_Witness ==
    /\ Len(requests) >= 2
    /\ requests[1].st = "done"
    /\ requests[1].result = "rejected"
    /\ EventsOf(1) # <<>>
    /\ requests[2].st = "done"
    /\ EventsOf(2) # <<>>

\* C10: the handling of an envelope whose source is blocked dispatches no
\* event, asks for no decrypt, touches no session, and returns normally.
C10_BlockedDropped ==
    \A r \in 1..Len(requests) :
        (requests[r].decoded /\ requests[r].source \in Blocked
            /\ requests[r].st \in {"respond", "done"}) =>
            /\ EventsOf(r) = <<>>
            /\ r \notin decrypted
            /\ r \notin touched
            /\ ~requests[r].thrown
            /\ requests[r].st = "done" =>
                  (requests[r].resp = 200 /\ requests[r].result = "resolved")

\* a RECEIPT of a blocked source and an envelope of a blocked source without
\* content or legacyMessage have both been handled
C10_Witness ==
    /\ Len(requests) >= 2
    /\ \A r \in 1..2 :
          /\ requests[r].st = "done"
          /\ requests[r].decoded
          /\ requests[r].source \in Blocked
    /\ requests[1].type = "RECEIPT"
    /\ requests[2].type # "RECEIPT"
    /\ requests[2].body = "none"

\* the message events a request's handling dispatched
MessagesOf(r) == Len(SelectSeq(events, LAMBDA e : e.req = r /\ e.type = "message"))

\* the request whose envelope handleEnvelope worked on last has been handled
Handled(r) == env.req = r /\ requests[r].st \in {"respond", "done"}

\* C11: when the session cipher answers the decrypt of an envelope with the
\* duplicate-counter error, the handling dispatches no event at all and
\* returns normally, the request is answered 200 and its job resolves; with
\* whatever an earlier handling dispatched there is at most one `message`
\* event.
C11_DuplicateDropped ==
    \A r \in 1..Len(requests) :
        (Handled(r) /\ env.answers # <<>> /\ env.answers[1] = "MessageCounterError") =>
            /\ EventsOf(r) = <<>>
            /\ ~requests[r].thrown
            /\ env.runs = 1
            /\ requests[r].st = "done" =>
                  /\ requests[r].resp = 200
                  /\ requests[r].responds = 1
                  /\ requests[r].result = "resolved"
            /\ \A i \in 1..(r - 1) : MessagesOf(i) + MessagesOf(r) <= 1

\* an envelope gave a message event, the same envelope arrived again, the
\* cipher answered with the duplicate-counter error, and the request is done
C11_Witness ==
    /\ Len(requests) >= 2
    /\ requests[1].st = "done"
    /\ MessagesOf(1) = 1
    /\ requests[2].source = requests[1].source
    /\ requests[2].type = requests[1].type
    /\ requests[2].body = requests[1].body
    /\ requests[2].st = "done"
    /\ env.req = 2
    /\ env.answers = <<"MessageCounterError">>

\* C12: every request is answered with exactly one respond call: 200 for the
\* queue-empty notice, 400 for a request for another resource, 500 together
\* with one error event when the envelope cannot be decrypted or decoded, and
\* otherwise 200, which is sent only when handleEnvelope is over, whether it
\* returned or threw.
C12_OneRespond ==
    \A r \in 1..Len(requests) :
        LET q == requests[r]
        IN /\ q.st # "done" => q.responds = 0
           /\ q.st = "done" =>
                 /\ q.responds = 1
                 /\ q.resp = CASE q.path = "/api/v1/queue/empty" -> 200
                                [] q.path = "/other" -> 400
                                [] ~q.decoded -> 500
                                [] OTHER -> 200
                 /\ q.resp = 500 =>
                       (Len(EventsOf(r)) = 1 /\ EventsOf(r)[1].type = "error")
                 /\ q.resp = 400 => EventsOf(r) = <<>>

\* a request whose handleEnvelope threw was answered 200, and a request
\* whose envelope could not be decoded was answered 500
C12_Witness ==
    /\ Len(requests) >= 2
    /\ requests[1].st = "done"
    /\ requests[1].decoded
    /\ requests[1].thrown
    /\ requests[1].resp = 200
    /\ requests[2].st = "done"
    /\ requests[2].resp = 500

\* the events of one type a request's handling dispatched
EventsOfType(r, t) == SelectSeq(events, LAMBDA e : e.req = r /\ e.type = t)

\* C16: handleEnvelope never throws for an envelope whose source is not
\* blocked: every failure other than a duplicate counter and a key change
\* that was not accepted gives exactly one error event whose proto is the
\* envelope.
C16_FailuresReported ==
    \A r \in 1..Len(requests) :
        (Handled(r) /\ ~IsBlocked(requests[r].source)) =>
            /\ ~requests[r].thrown
            /\ (env.caught \notin {"none", "MessageCounterError"} /\ env.accepted # "no") =>
                  /\ Len(EventsOfType(r, "error")) = 1
                  /\ EventsOfType(r, "error")[1].proto = r

\* C17: when the cipher answers the first decrypt of an envelope with the
\* untrusted-identity error, exactly one keychange event is dispatched; when
\* the change is accepted the envelope is handled once more, and a data
\* message the second decrypt returns gives exactly one message event, with
\* keyChange true; when the change is not accepted the handling ends with
\* no message event, no error event and no second handling.
C17_KeyChange ==
    \A r \in 1..Len(requests) :
        (Handled(r) /\ env.answers # <<>>
            /\ env.answers[1] = "UntrustedIdentityKeyError") =>
            /\ Len(EventsOfType(r, "keychange")) = 1
            /\ env.accepted \in {"yes", "no"}
            /\ env.accepted = "yes" =>
                  /\ env.runs = 2
                  /\ \A i \in 1..Len(events) :
                        (events[i].req = r /\ events[i].type = "message") =>
                            events[i].keyChange
                  /\ (Len(env.answers) = 2 /\ env.answers[2] = "ok"
                        /\ env.content \in {"data", "dataEndSession"}) =>
                        MessagesOf(r) = 1
            /\ env.accepted = "no" =>
                  /\ env.runs = 1
                  /\ Len(EventsOf(r)) = 1
                  /\ ~requests[r].thrown

\* a key change was accepted, the second decrypt returned a data message,
\* and the message event went out
C17_Witness ==
    /\ Len(requests) >= 1
    /\ requests[1].st = "done"
    /\ env.req = 1
    /\ env.answers = <<"UntrustedIdentityKeyError", "ok">>
    /\ env.content = "data"
    /\ MessagesOf(1) = 1

\* C18: a decrypted content envelope with a sync message whose source is not
\* the own address, or is the own address with the own device id, gives
\* exactly one error event, caused by a ReferenceError, and no sent or read
\* event, whatever the sync message holds.
C18_SyncOrigin ==
    \A r \in 1..Len(requests) :
        (Handled(r) /\ env.content \in SyncKinds
            /\ (requests[r].source # OwnAddr \/ env.sourceDevice = OwnDeviceId)) =>
            /\ Len(EventsOfType(r, "error")) = 1
            /\ EventsOfType(r, "error")[1].proto = r
            /\ env.caught = "ReferenceError"
            /\ EventsOfType(r, "sent") = <<>>
            /\ EventsOfType(r, "read") = <<>>
            /\ ~requests[r].thrown

\* a sync message with read entries came from the own device, after one with
\* a sent transcript came from another address
C18_Witness ==
    /\ Len(requests) >= 2
    /\ requests[1].st = "done"
    /\ requests[1].source = "alice"
    /\ Len(EventsOfType(1, "error")) = 1
    /\ requests[2].st = "done"
    /\ requests[2].source = OwnAddr
    /\ env.req = 2
    /\ env.sourceDevice = OwnDeviceId
    /\ env.content = "syncRead2"

\* the reconnect loops that have not returned
Running == {i \in 1..Len(loops) : loops[i] # "done"}

\* the connect() calls that have not returned
Pending == Len(waiters) + Len(SelectSeq(micro, LAMBDA t : t.k = "clear"))

\* C13: while close() has not been called at most one reconnect loop runs at
\* any time, for any interleaving of connect() calls and socket-close events
\* of the transport.
C13_OneLoop == ~closing => Cardinality(Running) <= 1

\* C14: once close() has been called no transport connect attempt is
\* started: the running loop exits without another wsr.connect() call, a
\* socket-close event starts neither a registration probe nor a reconnect,
\* also when close() comes while onSocketClose awaits its probe, and a later
\* connect() throws.
C14_NothingAfterClose == late = {}

\* after close() a loop has exited, a socket-close event has been ignored,
\* an onSocketClose that was awaiting its probe has returned without a
\* reconnect, and a connect() call has thrown
C14_Witness ==
    /\ closing
    /\ {"exited", "ignored", "skipped", "threw"} \subseteq seen

\* C15: the transport is never closed while a request is being handled or
\* waits in the queue: when close() is called then, the handling completes
\* and responds before the transport is closed.
C15_HandledBeforeClose ==
    sock \in {"closing", "closed"} => (InHandling = {} /\ rq = <<>>)

\* C20: while close() has not been called, a connect attempt that failed is
\* followed by a registration probe and then by another attempt, and a
\* socket close of the transport by a probe and a reconnect; a probe gives
\* one error event exactly when it fails; when the transport accepts in the
\* end, the transport is up again and every connect() call returns.
C20_Reconnects ==
    /\ [](lastProbe \in {"none", "ok", "failed, error event"})
    /\ [][\A i \in 1..Len(loops) :
             (loops[i] = "ready" /\ loops'[i] # "ready") =>
                 /\ (Head(micro).k = "attempt" /\ ~Head(micro).ok) => loops'[i] = "probe"
                 /\ (Head(micro).k = "probe" /\ ~closing) =>
                       /\ loops'[i] = "connect"
                       /\ lastProbe' = IF Head(micro).ok THEN "ok"
                                       ELSE "failed, error event"]_vars
    /\ ((oscs > 0 /\ ~closing) ~> (closing \/ sock = "up"))
    /\ ((Pending > 0) ~> (Pending = 0))

\* a refused attempt was followed by a failed probe and another attempt, the
\* transport closed by itself, and the transport is up again
C20_Witness ==
    /\ ~closing
    /\ "retried" \in seen
    /\ lastProbe = "failed, error event"
    /\ closes > 0
    /\ sock = "up"
    /\ Pending = 0

(***************************************************************************)
(* The claim about OutgoingMessage.emit.                                   *)
(***************************************************************************)
\* the entry of the log before entry p that is no registration (0: none)
PrevEntry(p) ==
    LET before == {q \in 1..(p - 1) : emitLog[q].what # "on"}
    IN IF before = {} THEN 0 ELSE CHOOSE q \in before : \A x \in before : x <= q

\* the callbacks registered before entry p
OnsBefore(p) == Cardinality({q \in 1..(p - 1) : emitLog[q].what = "on"})

\* entry q tells that callback k has settled
Settled(q, k) ==
    /\ q > 0
    /\ emitLog[q].listener = k
    /\ emitLog[q].what \in {"returned", "threw"}

\* C19: emit calls the callbacks one after the other in the order they were
\* registered, each after the one before it has settled; a callback that
\* throws or rejects does not keep the later ones from being called, emit
\* does not fail, and nothing is added to sent or errors.
C19_EmitSequential ==
    /\ emitResult # "rejected"
    /\ sent = 0
    /\ errors = <<>>
    /\ \A p \in 1..Len(emitLog) :
          LET e == emitLog[p]
              q == PrevEntry(p)
          IN /\ e.what # "rejected"
             /\ e.what = "called" =>
                   IF e.listener = 1
                   THEN q = 0 \/ emitLog[q].what = "resolved"
                   ELSE Settled(q, e.listener - 1)
             /\ e.what \in {"returned", "threw"} =>
                   /\ q > 0
                   /\ emitLog[q] = Entry(e.listener, "called")
             /\ e.what = "resolved" =>
                   IF OnsBefore(p) = 0
                   THEN q = 0 \/ emitLog[q].what = "resolved"
                   ELSE Settled(q, OnsBefore(p))

\* an emit has resolved after its first callback threw, its second rejected
\* and its third, registered while the second was awaited, returned
C19_Witness ==
    /\ emitResult = "resolved"
    /\ listeners = <<"throws", "rejects", "resolves">>
    /\ emitLog = <<Entry(1, "on"), Entry(2, "on"),
                   Entry(1, "called"), Entry(1, "threw"), Entry(2, "called"),
                   Entry(3, "on"),
                   Entry(2, "threw"), Entry(3, "called"), Entry(3, "returned"),
                   Entry(0, "resolved")>>

(***************************************************************************)
(* Further claims about OutgoingMessage.sendToAddr.                        *)
(***************************************************************************)
\* C21: sendToAddr to our own address with no device stored journals exactly
\* one sent entry and stops: while the scan has not failed no key is fetched
\* and server.sendMessages is not called.
C21_OwnNoDevices ==
    ~scanFailed =>
        /\ transmits = 0
        /\ pc # "transmit"
        /\ kq.todo = <<>>
        /\ sent <= 1
        /\ pc = "done" => sent = 1

\* C25: when encrypting to a device fails in a send round, the error "Failed
\* to create message" is journaled and nothing further is journaled for the
\* call: from then on sent and errors stay as they are.
C25_EncryptFailureFinal ==
    [][("Failed to create message" \in Range(errors)) =>
           (sent' = sent /\ errors' = errors)]_vars

\* the device whose key request the loop of getKeysForAddr is making
\* (0: none)
Fetching ==
    IF pc # "keysLoop" THEN 0
    ELSE IF kq.reentrant THEN (IF kq.todo1 = <<>> THEN 0 ELSE Head(kq.todo1))
    ELSE IF kq.todo = <<>> THEN 0 ELSE Head(kq.todo)

\* C27: a session record is removed only for an extraDevices entry of the 409
\* being reconciled, or for a device other than 1 whose own key request was
\* answered 404; the handling of a 410 and a 404 for device 1 remove nothing.
C27_RemoveSession ==
    [][\A d \in Devices :
          (sess[d] # "none" /\ sess'[d] = "none") =>
              \/ pc = "reconcile" /\ fr.drift.code = 409 /\ d \in fr.drift.extraDevices
              \/ d # 1 /\ d = Fetching]_vars

\* C28: a sent entry is journaled only after a server.sendMessages call that
\* succeeded: once a transmit has failed or has hit the retry limit, which
\* ends the sending of the call, no sent entry is appended.
C28_SentOnlyOnSuccess ==
    [][(\E i \in 1..Len(errors) :
            errors[i] \in {"Failed to send message",
                           "Hit retry limit attempting to reload device list"}) =>
           sent' = sent]_vars

(***************************************************************************)
(* Further claims about MessageReceiver.handleEnvelope.                    *)
(***************************************************************************)
\* C22: a decrypted data message with the END_SESSION flag closes the
\* sessions of the source and gives no message event; one without the flag
\* gives exactly one message event and closes no session.
C22_EndSession ==
    \A r \in 1..Len(requests) :
        (Handled(r) /\ env.caught = "none") =>
            /\ env.content = "dataEndSession" =>
                  (r \in touched /\ MessagesOf(r) = 0)
            /\ env.content = "data" =>
                  (r \notin touched /\ MessagesOf(r) = 1)

\* the calls of one name the catch block made
StepsOf(name) == Len(SelectSeq(env.steps, LAMBDA x : x = name))

\* s is the start of t
IsPrefix(s, t) == Len(s) <= Len(t) /\ s = SubSeq(t, 1, Len(s))

C24_OneReentry ==
    \A r \in 1..Len(requests) :
        env.req = r =>
            /\ env.runs <= 2
            /\ Len(EventsOfType(r, "keychange")) <= 1
            /\ (Handled(r) /\ env.answers = <<"UntrustedIdentityKeyError",
                                               "UntrustedIdentityKeyError">>) =>
                  /\ env.runs = 2
                  /\ Len(EventsOfType(r, "keychange")) = 1
                  /\ Len(EventsOfType(r, "error")) = 1
                  /\ EventsOfType(r, "error")[1].proto = r
                  /\ MessagesOf(r) = 0
                  /\ env.steps = <<"error">>
                  /\ r \notin touched
                  /\ ~requests[r].thrown

\* a key change was accepted, the second decrypt raised the
\* untrusted-identity error again, and the request is done with one
\* keychange event followed by one error event
C24_Witness ==
    /\ Len(requests) >= 1
    /\ requests[1].st = "done"
    /\ env.req = 1
    /\ env.accepted = "yes"
    /\ env.answers = <<"UntrustedIdentityKeyError", "UntrustedIdentityKeyError">>
    /\ Len(EventsOf(1)) = 2
    /\ EventsOf(1)[1].type = "keychange"
    /\ EventsOf(1)[2].type = "error"

(***************************************************************************)
(* The claim about MessageReceiver.drain.                                  *)
(***************************************************************************)
\* the entry (what, id) stands in the log before position p
LoggedBefore(what, id, p) == \E q \in 1..(p - 1) : dlog[q] = DrainEntry(what, id)

\* the entries of one kind in the log, in order
Logged(what) == SelectSeq(dlog, LAMBDA e : e.what = what)

\* the answer of the messages API that stands last before position p
\* ("none": there is none)
AnswerBefore(p) ==
    LET before == {q \in 1..(p - 1) : dlog[q].what \in {"more", "last"}}
    IN IF before = {} THEN "none"
       ELSE dlog[CHOOSE q \in before : \A x \in before : x <= q].what

\* C26: drain hands the envelopes to handleEnvelope one at a time in the
\* order they were fetched; the DELETE of an envelope is requested only after
\* handleEnvelope has returned for it; when drain returns, the DELETE of
\* every envelope fetched has been requested and has completed; the messages
\* are requested again exactly after an answer with more = true; with the
\* stream drain throws and makes no request.
C26_Drain ==
    /\ wsr => (dlog = <<>> /\ dpc \in {"idle", "thrown"})
    /\ \A k \in 1..Len(Logged("handle")) : Logged("handle")[k].id = k
    /\ \A p \in 1..Len(dlog) :
          LET e == dlog[p]
          IN /\ e.what = "handle" =>
                   \A j \in 1..(e.id - 1) : LoggedBefore("handled", j, p)
             /\ e.what = "delete" =>
                   /\ LoggedBefore("handled", e.id, p)
                   /\ ~LoggedBefore("delete", e.id, p)
             /\ e.what = "deleted" => LoggedBefore("delete", e.id, p)
             /\ e.what = "fetch" =>
                   /\ AnswerBefore(p) \in {"none", "more"}
                   /\ AnswerBefore(p) = "none" <=> p = 1
                   /\ \A q \in 1..(p - 1) :
                         dlog[q].what = "delete" => LoggedBefore("deleted", dlog[q].id, p)
    /\ dpc = "returned" =>
          /\ ~wsr
          /\ AnswerBefore(Len(dlog) + 1) = "last"
          /\ Len(Logged("more")) + 1 = Len(Logged("fetch"))
          /\ \A id \in 1..(base + Len(data.messages)) :
                /\ LoggedBefore("handled", id, Len(dlog) + 1)
                /\ LoggedBefore("delete", id, Len(dlog) + 1)
                /\ LoggedBefore("deleted", id, Len(dlog) + 1)

\* drain has returned after two answers: the first held an envelope of a
\* blocked source and one of another source and reported more, the second
\* held one envelope; the three DELETE requests have completed
C26_Witness ==
    /\ dpc = "returned"
    /\ Len(Logged("fetch")) = 2
    /\ base = 2
    /\ data.messages = <<"alice">>
    /\ Len(Logged("deleted")) = 3
    /\ \E p \in 1..Len(dlog) :
          /\ dlog[p] = DrainEntry("deleted", 1)
          /\ LoggedBefore("handle", 2, p)
          /\ ~LoggedBefore("handled", 2, p)

====
